---- MODULE Spec2Model ----
(***************************************************************************)
(* Model of the Desktop MCP plugin registry (plugin_registry.py), the      *)
(* plugin base classes (plugin.py) and the NPM bridge channel              *)
(* (npm_plugin_loader.py).                                                 *)
(*                                                                         *)
(* Every coroutine of the program is a task; a task's pc names the await   *)
(* at which the coroutine is suspended.  The code between two awaits runs  *)
(* without interruption (one asyncio event loop) and is one action.        *)
(***************************************************************************)
EXTENDS Integers, Sequences, FiniteSets, TLC

\* ------------------------------------------------------------------------
\* Bounds of the model
\* ------------------------------------------------------------------------
MaxOrphans == 1      \* unreferenced live children counted per plugin
MaxChain == 3        \* longest middleware chain / subscriber list explored

\* ------------------------------------------------------------------------
\* The plugin objects handed to the registry and their static description
\* ------------------------------------------------------------------------
FnPlugins == {"pa", "pb", "pc"}         \* MCPFunctionPlugin instances
MwPlugins == {"m1", "m2"}               \* MiddlewarePlugin instances
EvPlugins == {"e1", "e2", "e3"}         \* EventPlugin instances
NpmPlugins == {"npm"}                   \* NPMPlugin instances
PluginIds == FnPlugins \cup MwPlugins \cup EvPlugins \cup NpmPlugins

Tasks == {"t1", "t2"}
FuncNames == {"f", "g", "h", "ping"}
EventTypes == {"ev"}
None == "-"

\* plugin.metadata.name; "pc" is a second object carrying the name of "pa"
NameOf(p) == IF p = "pc" THEN "pa" ELSE p
Names == {NameOf(p) : p \in PluginIds} \cup {"ghost"}

IsNPMPlugin(p) == p \in NpmPlugins
IsMCPFunctionPlugin(p) == p \in FnPlugins
IsEventPlugin(p) == p \in EvPlugins
IsMiddlewarePlugin(p) == p \in MwPlugins

\* keys of plugin.get_mcp_functions(); "g" is offered by two plugins
get_mcp_functions(p) ==
    CASE p = "pa" -> {"f", "g"}
      [] p = "pb" -> {"g"}
      [] p = "pc" -> {"h"}
      [] OTHER -> {}

\* keys of plugin.get_function_schemas()
get_function_schemas(p) ==
    CASE p = "pa" -> {"f"}
      [] p = "pb" -> {"g"}
      [] OTHER -> {}

get_supported_events(p) == IF p \in EvPlugins THEN {"ev"} ELSE {}

\* names the child process of an NPM plugin answers to 'get_mcp_functions'
RemoteFunctions(p) == IF p \in NpmPlugins THEN {"ping"} ELSE {}

\* ------------------------------------------------------------------------
\* State
\* ------------------------------------------------------------------------
VARIABLES
    plugins,             \* PluginRegistry.plugins: name -> plugin object
    mcp_functions,       \* PluginRegistry.mcp_functions: name -> owner of the callable
    function_schemas,    \* PluginRegistry.function_schemas: name -> owner of the schema
    event_handlers,      \* PluginRegistry.event_handlers: type -> list of plugins
    middleware_plugins,  \* PluginRegistry.middleware_plugins: list of plugins
    initialized,         \* BasePlugin._initialized of every plugin object
    enabled,             \* BasePlugin._enabled of every plugin object
    npm_functions,       \* NPMPlugin._mcp_functions (keys) of every NPM plugin
    task,                \* the coroutines running on the event loop
    process,             \* NPMPluginBridge.process: "None" or the Popen object
    child,               \* the child process: "none" (not spawned), "alive", "exited"
    request_id,          \* NPMPluginBridge._request_id
    stdin,               \* request ids written to the child and not yet read by it
    stdout,              \* response lines written by the child and not yet read
    call,                \* the coroutines inside NPMPluginBridge.call_function
    ctl,                 \* the coroutine inside NPMPluginBridge.start / stop
    package_json,        \* mcp.permissions of the package.json of every NPM plugin
    npm_plugin,          \* NPMPlugin.package_info, _metadata, _permissions
    loaded_plugins,      \* ZeroConfigRegistry.loaded_plugins: name -> plugin object
    auto                 \* the coroutine inside ZeroConfigRegistry.auto_load_all

regvars == <<plugins, mcp_functions, function_schemas, event_handlers,
             middleware_plugins, initialized, enabled, npm_functions, task>>

tables == <<mcp_functions, function_schemas, event_handlers, middleware_plugins>>

bvars == <<process, child, request_id, stdin, stdout, call, ctl>>

avars == <<package_json, npm_plugin, loaded_plugins, auto>>

vars == <<regvars, bvars, avars>>

\* ------------------------------------------------------------------------
\* NPMPlugin: package information and permissions
\* ------------------------------------------------------------------------
\* mcp.permissions of a package.json: a key is "true", "false" or "absent".
\* Two of the nine keys are followed: one whose default is False and the one
\* whose default is True.
PermConfigs ==
    [can_access_network : {"absent", "true"},
     confirmation_required : {"absent", "false"}]

NoPermConfig == [can_access_network |-> "absent", confirmation_required |-> "absent"]

\* PluginPermissions(can_access_network=perms_config.get(..., False), ...,
\* confirmation_required=perms_config.get(..., True))
PluginPermissions(cfg) ==
    [can_access_network |-> cfg.can_access_network = "true",
     confirmation_required |-> cfg.confirmation_required # "false"]

\* PluginPermissions()
DefaultPermissions == [can_access_network |-> FALSE, confirmation_required |-> TRUE]

\* NPMPlugin.__init__: package_info and _metadata are None (FALSE here),
\* _permissions is None (the empty sequence here); reads collects what the
\* `permissions` property has returned
\* orphans counts the children started for the plugin that are alive while no
\* bridge of the plugin refers to them (counted up to MaxOrphans)
NewNPMPlugin ==
    [package_info |-> FALSE, _metadata |-> FALSE, _permissions |-> <<>>, reads |-> {},
     orphans |-> 0]

\* NPMPlugin._load_package_info: with package.json read ("ok") both fields are
\* set; a file that is not there or does not parse leaves them
_load_package_info(o, info) ==
    IF info = "ok" THEN [o EXCEPT !.package_info = TRUE, !._metadata = TRUE] ELSE o

\* the `metadata` property: loads on the first read
LoadedMetadata(o, info) == IF o._metadata THEN o ELSE _load_package_info(o, info)

\* NPMPlugin._load_permissions: the value stored in _permissions
_load_permissions(o, cfg, info) ==
    IF ~o.package_info THEN DefaultPermissions
    ELSE IF info = "ok" THEN PluginPermissions(cfg)
    ELSE DefaultPermissions

\* ------------------------------------------------------------------------
\* PythonPackagePlugin and the plugins ZeroConfigRegistry discovers
\* ------------------------------------------------------------------------
MaxRuns == 2         \* calls of auto_load_all
MaxDiscovered == 2   \* plugins one discovery returns

AutoNames == {"x", "y"}

\* adapter_config of a python_package plugin: whether python_adapter.initialize
\* succeeds, and 'methods' in dict order, each method_config being
\*   "ok"             a dict with a list of strings under 'parameters'
\*   "unknown"        a dict with none of the keys the code reads
\*   "bad_parameters" a dict whose 'parameters' is no list of strings
\*   "not_a_dict"     no dict at all
Method(n, k) == [name |-> n, kind |-> k]

PkgConfigs ==
    {[adapter |-> "ok", methods |-> <<Method("a", "ok"), Method("b", "unknown")>>],
     [adapter |-> "ok", methods |-> <<Method("a", "ok"), Method("b", "bad_parameters")>>],
     [adapter |-> "ok", methods |-> <<Method("a", "not_a_dict"), Method("b", "ok")>>],
     [adapter |-> "false", methods |-> <<Method("a", "ok")>>]}

NoConfig == [adapter |-> None, methods |-> <<>>]

\* plugin_info entries: the types discover_all_plugins appends
PluginInfos ==
    [type : {"npm", "python", "existing_npm"}, name : AutoNames, cfg : {NoConfig}]
        \cup [type : {"python_package"}, name : AutoNames, cfg : PkgConfigs]

\* the lists a discovery can return
Discoveries == UNION {[1..n -> PluginInfos] : n \in 0..MaxDiscovered}

\* PythonPackagePlugin._create_function_wrapper raises on
\* method_config.get (AttributeError) or ', '.join(parameters) (TypeError)
WrapperRaises(kind) == kind \in {"not_a_dict", "bad_parameters"}

\* position of the first method whose wrapper cannot be made, Len + 1 if none
FirstRaise(ms) ==
    LET bad == {i \in 1..Len(ms) : WrapperRaises(ms[i].kind)} IN
    IF bad = {} THEN Len(ms) + 1
    ELSE CHOOSE i \in bad : \A j \in bad : i <= j

\* PythonPackagePlugin.initialize (nothing in it suspends): what it returns
\* and the keys of _functions afterwards
PythonPackagePlugin_initialize(cfg) ==
    IF cfg.adapter # "ok"
    THEN [ok |-> FALSE, _functions |-> {}]
    ELSE [ok |-> FirstRaise(cfg.methods) > Len(cfg.methods),
          _functions |-> {cfg.methods[i].name : i \in 1..(FirstRaise(cfg.methods) - 1)}]

\* the coroutine inside auto_load_all
\* pc          "done", "discover", "loop" (between two plugins), "initialize"
\* run         calls made so far
\* discovered  the list discover_all_plugins returned
\* i           position in it
\* results     the dict auto_load_all builds and returns
\* failed      the plugin objects whose initialize did not succeed
NewAuto ==
    [pc |-> "done", run |-> 0, discovered |-> <<>>, i |-> 0,
     results |-> <<>>, failed |-> {}]

ObjInit ==
    /\ package_json = [p \in NpmPlugins |-> NoPermConfig]
    /\ npm_plugin = [p \in NpmPlugins |-> NewNPMPlugin]
    /\ loaded_plugins = <<>>
    /\ auto = NewAuto

\* ------------------------------------------------------------------------
\* Helpers on sequences and maps
\* ------------------------------------------------------------------------
Range(s) == {s[i] : i \in 1..Len(s)}

RECURSIVE Reverse(_)
Reverse(s) == IF s = <<>> THEN <<>> ELSE Append(Reverse(Tail(s)), Head(s))

\* list.remove(x): drops the first occurrence, ValueError (ignored) if absent
RECURSIVE RemoveFirst(_, _)
RemoveFirst(s, x) ==
    IF s = <<>> THEN <<>>
    ELSE IF Head(s) = x THEN Tail(s)
    ELSE <<Head(s)>> \o RemoveFirst(Tail(s), x)

\* dict restricted to the keys outside ks (dict.pop(k, None) for k in ks)
Without(m, ks) == [k \in (DOMAIN m) \ ks |-> m[k]]

\* dict after m[k] = v for every k in ks
WithAll(m, ks, v) == [k \in (DOMAIN m) \cup ks |-> IF k \in ks THEN v ELSE m[k]]

EmptyMap == [k \in {} |-> None]

\* `plugin.enabled and plugin.initialized`
Active(p) == enabled[p] /\ initialized[p]

\* ------------------------------------------------------------------------
\* Tasks
\* ------------------------------------------------------------------------
\* op      the registry method the coroutine runs
\* pc      "done", or the await the coroutine is suspended at
\* arg     the name argument (plugin name, function name, event type)
\* plug    the plugin object the coroutine holds (load / unload / register)
\* idx     position of the list iterator (1-based), 0 when exhausted
\* args    processed_kwargs, as the list of middleware that transformed it
\* log     request path / event handlers invoked: [mw, pos, got]
\* rlog    response path invocations: [mw, pos, got]
\* callee  owner of the callable that was invoked, None if none was
\* pres    plugin_result.success of the call under way
\* results list returned by emit_event; in load_plugin, what the Node.js
\*         check returned; in call_function, what the callable did
\*         ("return" / "raise")
\* result  what the finished coroutine returned or raised
\* note    the line the coroutine logged about its outcome
\* inits   what each plugin.initialize() awaited by the coroutine did:
\*         "ok" (truthy), "false" (falsy) or "raise"
\* err     the exception a middleware let out of call_function: the
\*         middleware that raised it and the path ("request" / "response")
\* quiet   no list or flag the coroutine iterates over changed since it began
NewTask(op, arg) ==
    [op |-> op, pc |-> "done", arg |-> arg, plug |-> None, idx |-> 0,
     args |-> <<>>, log |-> <<>>, rlog |-> <<>>, callee |-> None,
     pres |-> None, results |-> <<>>, result |-> None, note |-> None,
     inits |-> <<>>, err |-> [mw |-> None, path |-> None], quiet |-> TRUE]

IdleTask == NewTask("idle", None)

Free(t) == task[t].pc = "done"

\* a call_function / emit_event coroutine notes that plugin p, which its loop
\* may meet, changed its flags or its place in the list
Disturbed(tk, p) ==
    IF \/ tk.op = "call_function" /\ IsMiddlewarePlugin(p)
       \/ tk.op = "emit_event" /\ IsEventPlugin(p)
    THEN [tk EXCEPT !.quiet = FALSE]
    ELSE tk

DisturbAll(tt, p) == [u \in Tasks |-> Disturbed(tt[u], p)]

RegInit ==
    /\ plugins = EmptyMap
    /\ mcp_functions = EmptyMap
    /\ function_schemas = EmptyMap
    /\ event_handlers = EmptyMap
    /\ middleware_plugins = <<>>
    /\ initialized = [p \in PluginIds |-> FALSE]
    /\ enabled = [p \in PluginIds |-> TRUE]
    /\ npm_functions = [p \in NpmPlugins |-> {}]
    /\ task = [t \in Tasks |-> IdleTask]

\* ------------------------------------------------------------------------
\* PluginRegistry._register_plugin (no await inside: one step).  Reading
\* plugin.metadata loads the package information of an NPM plugin; the
\* registry registers one right after parsing its package.json.
\* ------------------------------------------------------------------------
\* `if plugin_name in self.plugins`
AlreadyRegistered_never(n) == FALSE

AlreadyRegistered(n) == n \in DOMAIN plugins

_register_plugin(t, p) ==
    /\ Free(t)
    /\ IF AlreadyRegistered(NameOf(p))
       THEN /\ task' = [task EXCEPT ![t] =
                   [NewTask("register", NameOf(p)) EXCEPT
                       !.plug = p, !.result = "None", !.note = "already registered"]]
            /\ UNCHANGED plugins
       ELSE /\ plugins' = WithAll(plugins, {NameOf(p)}, p)
            /\ task' = [task EXCEPT ![t] =
                   [NewTask("register", NameOf(p)) EXCEPT
                       !.plug = p, !.result = "None", !.note = "registered"]]
    /\ npm_plugin' = IF IsNPMPlugin(p)
                     THEN [npm_plugin EXCEPT ![p] = LoadedMetadata(@, "ok")]
                     ELSE npm_plugin
    /\ UNCHANGED <<tables, initialized, enabled, npm_functions, bvars,
                   package_json, loaded_plugins, auto>>

\* ------------------------------------------------------------------------
\* PluginRegistry._register_plugin_functions / _unregister_plugin_functions
\* (both run without suspending)
\* ------------------------------------------------------------------------
RegisteredFunctions(m, p) ==
    IF IsMCPFunctionPlugin(p) THEN WithAll(m, get_mcp_functions(p), p) ELSE m

RegisteredSchemas(m, p) ==
    IF IsMCPFunctionPlugin(p)
    THEN WithAll(m, get_mcp_functions(p) \cap get_function_schemas(p), p)
    ELSE m

RegisteredEvents(eh, p) ==
    IF IsEventPlugin(p)
    THEN [e \in (DOMAIN eh) \cup get_supported_events(p) |->
             IF e \in get_supported_events(p)
             THEN Append(IF e \in DOMAIN eh THEN eh[e] ELSE <<>>, p)
             ELSE eh[e]]
    ELSE eh

RegisteredMiddleware(mw, p) ==
    IF IsMiddlewarePlugin(p) THEN Append(mw, p) ELSE mw

UnregisteredFunctions_kept(m, p) == m

UnregisteredFunctions(m, p) ==
    IF IsMCPFunctionPlugin(p) THEN Without(m, get_mcp_functions(p)) ELSE m

UnregisteredEvents(eh, p) ==
    IF IsEventPlugin(p)
    THEN [e \in DOMAIN eh |->
             IF e \in get_supported_events(p) THEN RemoveFirst(eh[e], p) ELSE eh[e]]
    ELSE eh

UnregisteredMiddleware(mw, p) ==
    IF IsMiddlewarePlugin(p) THEN RemoveFirst(mw, p) ELSE mw

\* the lists stay within the explored length after publishing p
FitsChain(p) ==
    /\ IsMiddlewarePlugin(p) => Len(middleware_plugins) < MaxChain
    /\ IsEventPlugin(p) =>
          \A e \in get_supported_events(p) \cap DOMAIN event_handlers :
              Len(event_handlers[e]) < MaxChain

\* ------------------------------------------------------------------------
\* PluginRegistry.load_plugin
\* ------------------------------------------------------------------------
\* `if plugin.initialized: return True`
AlreadyLoaded_never(p) == FALSE

AlreadyLoaded(p) == initialized[p]

\* up to the first await: lookup, already-loaded test, Node.js check
load_plugin(t, n) ==
    /\ Free(t)
    /\ LET tk == NewTask("load_plugin", n) IN
       IF n \notin DOMAIN plugins
       THEN task' = [task EXCEPT ![t] = [tk EXCEPT !.result = "False", !.note = "not found"]]
       ELSE LET p == plugins[n] IN
            IF AlreadyLoaded(p)
            THEN task' = [task EXCEPT ![t] =
                     [tk EXCEPT !.plug = p, !.result = "True", !.note = "already loaded"]]
            ELSE IF IsNPMPlugin(p)
            THEN task' = [task EXCEPT ![t] = [tk EXCEPT !.plug = p, !.pc = "node_check"]]
            ELSE task' = [task EXCEPT ![t] = [tk EXCEPT !.plug = p, !.pc = "initialize"]]
    /\ UNCHANGED <<plugins, tables, initialized, enabled, npm_functions, bvars, avars>>

\* `not await self._check_node_availability()`, never true
NodeMissing_never(available) == FALSE

\* `not await self._check_node_availability()`
NodeMissing(available) == ~available

\* _check_node_availability returned (returncode == 0, or False when the
\* version probe could not be run); results keeps what it returned
load_plugin_node_checked(t, available) ==
    /\ task[t].op = "load_plugin" /\ task[t].pc = "node_check"
    /\ LET checked == [task[t] EXCEPT
                         !.results = <<IF available THEN "True" ELSE "False">>] IN
       task' = [task EXCEPT ![t] =
           IF NodeMissing(available)
           THEN [checked EXCEPT !.pc = "done", !.result = "False", !.note = "no node"]
           ELSE [checked EXCEPT !.pc = "initialize"]]
    /\ UNCHANGED <<plugins, tables, initialized, enabled, npm_functions, bvars, avars>>

\* _safe_initialize without its else branch: any return counts as success
_safe_initialize_any(outcome) == outcome # "raise"

\* BasePlugin._safe_initialize: True exactly when initialize() returned a
\* truthy value; a falsy value or an exception gives False
_safe_initialize(outcome) == outcome = "ok"

\* `if await plugin._safe_initialize(): await self._register_plugin_functions(plugin)`
Publishes_always(ok) == TRUE

Publishes(ok) == ok

\* what load_plugin does once plugin.initialize() has finished inside
\* BasePlugin._safe_initialize with outcome "ok" (truthy), "false" (falsy)
\* or "raise"; fns are the names an NPM plugin's initialize stored in
\* _mcp_functions.  On success the flag is set and
\* _register_plugin_functions runs before anything else can.
Initialized(t, outcome, fns) ==
    /\ LET p == task[t].plug
           ok == _safe_initialize(outcome) IN
       /\ initialized' = IF ok THEN [initialized EXCEPT ![p] = TRUE] ELSE initialized
       /\ npm_functions' = IF IsNPMPlugin(p)
                           THEN [npm_functions EXCEPT ![p] = @ \cup fns]
                           ELSE npm_functions
       /\ IF Publishes(ok)
          THEN /\ FitsChain(p)
               /\ mcp_functions' = RegisteredFunctions(mcp_functions, p)
               /\ function_schemas' = RegisteredSchemas(function_schemas, p)
               /\ event_handlers' = RegisteredEvents(event_handlers, p)
               /\ middleware_plugins' = RegisteredMiddleware(middleware_plugins, p)
          ELSE UNCHANGED tables
       /\ task' = IF ok
                  THEN [DisturbAll(task, p) EXCEPT ![t] =
                           [task[t] EXCEPT !.pc = "done", !.result = "True",
                                           !.inits = Append(@, outcome),
                                           !.note = "loaded"]]
                  ELSE [task EXCEPT ![t] =
                           [@ EXCEPT !.pc = "done", !.result = "False",
                                     !.inits = Append(@, outcome),
                                     !.note = "failed to initialize"]]
    /\ UNCHANGED <<plugins, enabled, avars>>

\* plugin.initialize() of a plugin whose initialize is not followed inside:
\* it finished with one of the three outcomes
load_plugin_initialized(t, outcome) ==
    /\ task[t].op = "load_plugin" /\ task[t].pc = "initialize"
    /\ Initialized(t, outcome,
                   IF outcome = "ok" THEN RemoteFunctions(task[t].plug) ELSE {})
    /\ UNCHANGED bvars

\* ------------------------------------------------------------------------
\* PluginRegistry.unload_plugin
\* ------------------------------------------------------------------------
unload_plugin(t, n) ==
    /\ Free(t)
    /\ LET tk == NewTask("unload_plugin", n) IN
       IF n \notin DOMAIN plugins
       THEN task' = [task EXCEPT ![t] = [tk EXCEPT !.result = "False"]]
       ELSE task' = [task EXCEPT ![t] = [tk EXCEPT !.plug = plugins[n], !.pc = "cleanup"]]
    /\ UNCHANGED <<plugins, tables, initialized, enabled, npm_functions, bvars, avars>>

\* plugin.cleanup() finished inside BasePlugin._safe_cleanup: outcome "ok"
\* or "raise"; _unregister_plugin_functions follows in the same step.
unload_plugin_cleaned(t, outcome) ==
    /\ task[t].op = "unload_plugin" /\ task[t].pc = "cleanup"
    /\ LET p == task[t].plug IN
       /\ initialized' = IF outcome = "ok" THEN [initialized EXCEPT ![p] = FALSE]
                         ELSE initialized
       /\ mcp_functions' = UnregisteredFunctions(mcp_functions, p)
       /\ function_schemas' = UnregisteredFunctions(function_schemas, p)
       /\ event_handlers' = UnregisteredEvents(event_handlers, p)
       /\ middleware_plugins' = UnregisteredMiddleware(middleware_plugins, p)
       /\ task' = [DisturbAll(task, p) EXCEPT ![t] =
                      [task[t] EXCEPT !.pc = "done", !.result = "True",
                                      !.note = IF outcome = "ok" THEN "cleaned up"
                                               ELSE "cleanup error"]]
    /\ UNCHANGED <<plugins, enabled, npm_functions, bvars, avars>>

\* ------------------------------------------------------------------------
\* BasePlugin.enable / BasePlugin.disable
\* ------------------------------------------------------------------------
enable(p) ==
    /\ ~enabled[p]
    /\ enabled' = [enabled EXCEPT ![p] = TRUE]
    /\ task' = DisturbAll(task, p)
    /\ UNCHANGED <<plugins, tables, initialized, npm_functions, bvars, avars>>

disable(p) ==
    /\ enabled[p]
    /\ enabled' = [enabled EXCEPT ![p] = FALSE]
    /\ task' = DisturbAll(task, p)
    /\ UNCHANGED <<plugins, tables, initialized, npm_functions, bvars, avars>>

\* ------------------------------------------------------------------------
\* PluginRegistry.call_function
\* ------------------------------------------------------------------------
\* the positions of an active plugin in list s at or after i (forward
\* iterator) and at or before i (reverse iterator)
ActiveFrom(s, i) == {j \in i..Len(s) : Active(s[j])}
ActiveUpTo(s, i) == {j \in 1..i : Active(s[j])}

Min(S) == CHOOSE x \in S : \A y \in S : x <= y
Max(S) == CHOOSE x \in S : \A y \in S : x >= y

\* `if plugin_result.success: return plugin_result.data / else: raise Exception(...)`
Finished(tk) ==
    [tk EXCEPT !.pc = "done", !.idx = 0,
               !.result = IF tk.pres = "success" THEN "data" ELSE "Exception"]

\* the response loop without reversed(): i counts the positions left
ResponseScan_forward(tk, i) ==
    LET n == Len(middleware_plugins) IN
    IF i >= 1 /\ i <= n /\ ActiveFrom(middleware_plugins, n - i + 1) # {}
    THEN LET j == Min(ActiveFrom(middleware_plugins, n - i + 1)) IN
         [tk EXCEPT !.pc = "process_response", !.idx = n - j + 1,
                    !.rlog = Append(@, [mw |-> middleware_plugins[j], pos |-> j,
                                        got |-> tk.pres])]
    ELSE Finished(tk)

\* `for middleware in reversed(self.middleware_plugins)` from position i on:
\* the reverse iterator ends as soon as its position is outside the list
ResponseScan(tk, i) ==
    IF i <= Len(middleware_plugins) /\ ActiveUpTo(middleware_plugins, i) # {}
    THEN LET j == Max(ActiveUpTo(middleware_plugins, i)) IN
         [tk EXCEPT !.pc = "process_response", !.idx = j,
                    !.rlog = Append(@, [mw |-> middleware_plugins[j], pos |-> j,
                                        got |-> tk.pres])]
    ELSE Finished(tk)

\* `func = self.mcp_functions[function_name]; result = await func(...)`: a
\* missing key raises KeyError inside the try block
TargetCall(tk) ==
    IF tk.arg \in DOMAIN mcp_functions
    THEN [tk EXCEPT !.pc = "func", !.idx = 0, !.callee = mcp_functions[tk.arg]]
    ELSE ResponseScan([tk EXCEPT !.pres = "failure"], Len(middleware_plugins))

\* `for middleware in self.middleware_plugins` from position i on
RequestScan(tk, i) ==
    IF ActiveFrom(middleware_plugins, i) # {}
    THEN LET j == Min(ActiveFrom(middleware_plugins, i)) IN
         [tk EXCEPT !.pc = "process_request", !.idx = j,
                    !.log = Append(@, [mw |-> middleware_plugins[j], pos |-> j,
                                       got |-> tk.args])]
    ELSE TargetCall(tk)

\* `if function_name not in self.mcp_functions: raise ValueError(...)`
NotFound_never(f) == FALSE

NotFound(f) == f \notin DOMAIN mcp_functions

call_function(t, f) ==
    /\ Free(t)
    /\ LET tk == NewTask("call_function", f) IN
       task' = [task EXCEPT ![t] =
           IF NotFound(f)
           THEN [tk EXCEPT !.result = "ValueError"]
           ELSE RequestScan(tk, 1)]
    /\ UNCHANGED <<plugins, tables, initialized, enabled, npm_functions, bvars, avars>>

\* process_request raised and a handler around the request loop swallowed
\* the exception: the loop goes on with the mapping as it was
RequestRaised_swallowed(tk, mw) ==
    [RequestScan(tk, tk.idx + 1) EXCEPT !.err = [mw |-> mw, path |-> "request"]]

\* process_request raised: the request loop is outside every try block, the
\* exception leaves call_function at once
RequestRaised(tk, mw) ==
    [tk EXCEPT !.pc = "done", !.idx = 0, !.result = "MiddlewareError",
               !.err = [mw |-> mw, path |-> "request"]]

\* middleware.process_request returned the transformed mapping, or raised
call_function_requested(t, outcome) ==
    /\ task[t].op = "call_function" /\ task[t].pc = "process_request"
    /\ LET tk == task[t]
           mw == tk.log[Len(tk.log)].mw IN
       task' = [task EXCEPT ![t] =
           IF outcome = "raise"
           THEN RequestRaised(tk, mw)
           ELSE RequestScan([tk EXCEPT !.args = Append(tk.log[Len(tk.log)].got, mw)],
                            tk.idx + 1)]
    /\ UNCHANGED <<plugins, tables, initialized, enabled, npm_functions, bvars, avars>>

\* the try / except around the target: PluginResult.success(result), or
\* PluginResult.failure(str(e)) when it raised
\* the try without its except branch taking effect: every outcome a success
Wrapped_success(outcome) == "success"

Wrapped(outcome) == IF outcome = "return" THEN "success" ELSE "failure"

\* the target callable returned or raised; the result is wrapped
call_function_returned(t, outcome) ==
    /\ task[t].op = "call_function" /\ task[t].pc = "func"
    /\ task' = [task EXCEPT ![t] =
           ResponseScan([task[t] EXCEPT !.pres = Wrapped(outcome),
                                        !.results = <<outcome>>],
                        Len(middleware_plugins))]
    /\ UNCHANGED <<plugins, tables, initialized, enabled, npm_functions, bvars, avars>>

\* middleware.process_response returned a result ("success" or "failure")
\* or raised
call_function_responded(t, outcome) ==
    /\ task[t].op = "call_function" /\ task[t].pc = "process_response"
    /\ task' = [task EXCEPT ![t] =
           IF outcome = "raise"
           THEN [task[t] EXCEPT !.pc = "done", !.idx = 0, !.result = "MiddlewareError",
                                !.err = [mw |-> task[t].rlog[Len(task[t].rlog)].mw,
                                         path |-> "response"]]
           ELSE ResponseScan([task[t] EXCEPT !.pres = outcome], task[t].idx - 1)]
    /\ UNCHANGED <<plugins, tables, initialized, enabled, npm_functions, bvars, avars>>

\* ------------------------------------------------------------------------
\* PluginRegistry.emit_event
\* ------------------------------------------------------------------------
\* the loop over the handlers taking the last active one first
HandlerScan_last(tk, i) ==
    LET hs == event_handlers[tk.arg] IN
    IF ActiveFrom(hs, i) # {}
    THEN LET j == Max(ActiveFrom(hs, i)) IN
         [tk EXCEPT !.pc = "handle_event", !.idx = j,
                    !.log = Append(@, [mw |-> hs[j], pos |-> j, got |-> <<>>])]
    ELSE [tk EXCEPT !.pc = "done", !.idx = 0, !.result = "list"]

\* `for handler in self.event_handlers[event_type]` from position i on
HandlerScan(tk, i) ==
    LET hs == event_handlers[tk.arg] IN
    IF ActiveFrom(hs, i) # {}
    THEN LET j == Min(ActiveFrom(hs, i)) IN
         [tk EXCEPT !.pc = "handle_event", !.idx = j,
                    !.log = Append(@, [mw |-> hs[j], pos |-> j, got |-> <<>>])]
    ELSE [tk EXCEPT !.pc = "done", !.idx = 0, !.result = "list"]

emit_event(t, e) ==
    /\ Free(t)
    /\ LET tk == NewTask("emit_event", e) IN
       task' = [task EXCEPT ![t] =
           IF e \notin DOMAIN event_handlers
           THEN [tk EXCEPT !.result = "list"]
           ELSE HandlerScan(tk, 1)]
    /\ UNCHANGED <<plugins, tables, initialized, enabled, npm_functions, bvars, avars>>

\* handler.handle_event returned a PluginResult ("success" / "failure") or
\* raised; a raise is caught and recorded as a failure
HandlerEntry(tk, outcome) ==
    [by |-> tk.log[Len(tk.log)].mw, success |-> (outcome = "success"),
     raised |-> (outcome = "raise")]

\* the try / except around handle_event: the result, or the failure made of
\* the exception, is appended and the loop goes on
Handled_uncaught(tk, outcome) ==
    IF outcome = "raise"
    THEN [tk EXCEPT !.pc = "done", !.idx = 0, !.result = "Exception"]
    ELSE HandlerScan([tk EXCEPT !.results = Append(@, HandlerEntry(tk, outcome))],
                     tk.idx + 1)

Handled(tk, outcome) ==
    HandlerScan([tk EXCEPT !.results = Append(@, HandlerEntry(tk, outcome))], tk.idx + 1)

emit_event_handled(t, outcome) ==
    /\ task[t].op = "emit_event" /\ task[t].pc = "handle_event"
    /\ task' = [task EXCEPT ![t] = Handled(task[t], outcome)]
    /\ UNCHANGED <<plugins, tables, initialized, enabled, npm_functions, bvars, avars>>

\* ------------------------------------------------------------------------
\* PluginRegistry.get_available_functions / get_function_schema (reads)
\* ------------------------------------------------------------------------
\* `return list(self.mcp_functions.keys())`
get_available_functions(t) ==
    /\ Free(t)
    /\ task' = [task EXCEPT ![t] =
           [NewTask("get_available_functions", None) EXCEPT !.result = "list"]]
    /\ UNCHANGED <<plugins, tables, initialized, enabled, npm_functions, bvars, avars>>

\* `return self.function_schemas.get(function_name)`
get_function_schema(t, f) ==
    /\ Free(t)
    /\ task' = [task EXCEPT ![t] =
           [NewTask("get_function_schema", f) EXCEPT
               !.result = IF f \in DOMAIN function_schemas THEN "schema" ELSE "None"]]
    /\ UNCHANGED <<plugins, tables, initialized, enabled, npm_functions, bvars, avars>>

\* ------------------------------------------------------------------------
\* NPMPluginBridge: one channel object and the child process behind it
\* ------------------------------------------------------------------------
MaxRequests == 3     \* requests written on the channel in one run

Callers == {"c1", "c2"}

\* pc      "done", or the await the coroutine is suspended at
\* id      the id of the request this call wrote (0: none)
\* result  PluginResult.success of what the call returned, "raised" if an
\*         exception left call_function
\* error   what made the call fail
\* got     the id in the response line this call read (0: none)
\* line    the kind of line this call read: "result", "error" (a response
\*         with an error member), "garbage" (not JSON), None if none
\* after   how the latest call that wrote a request before this one ended:
\*         its error, or "success"; None if there was none
\* serial  the channel was used by one call at a time up to and during this
\*         call
NewCall ==
    [pc |-> "done", id |-> 0, result |-> None, error |-> None, got |-> 0,
     line |-> None, after |-> None, serial |-> TRUE]

\* the calls that wrote their request and have not finished reading
InFlight == {c \in Callers : call[c].pc \in {"drain", "readline"}}

\* how the latest finished call ended (the one with the highest request id)
LastOutcome ==
    LET fin == {c \in Callers : call[c].pc = "done" /\ call[c].id > 0} IN
    IF fin = {} THEN None
    ELSE LET c == CHOOSE x \in fin : \A y \in fin : call[y].id <= call[x].id IN
         IF call[c].result = "success" THEN "success" ELSE call[c].error

\* the record of a call that caller c begins now
BeginCall(c) ==
    [NewCall EXCEPT !.after = LastOutcome,
                    !.serial = InFlight = {} /\ \A d \in Callers : call[d].serial]

NewCtl == [op |-> "idle", pc |-> "done", result |-> None]

BridgeInit ==
    /\ process = "None"
    /\ child = "none"
    /\ request_id = 0
    /\ stdin = <<>>
    /\ stdout = <<>>
    /\ call = [c \in Callers |-> NewCall]
    /\ ctl = NewCtl

\* `except Exception as e: return PluginResult.failure(str(e))`
Caught_reraised(tk, e) == [tk EXCEPT !.pc = "done", !.result = "raised", !.error = e]

Caught(tk, e) == [tk EXCEPT !.pc = "done", !.result = "failure", !.error = e]

\* NPMPluginBridge.start, up to `await asyncio.sleep(0.1)`: the child is
\* spawned ("spawned") or create_subprocess_exec raised ("raise")
start_spawn(outcome) ==
    /\ ctl.pc = "done" /\ child = "none" /\ process = "None"
    /\ IF outcome = "spawned"
       THEN /\ process' = "Popen"
            /\ child' = "alive"
            /\ ctl' = [op |-> "start", pc |-> "sleep", result |-> None]
       ELSE /\ ctl' = [op |-> "start", pc |-> "done", result |-> "False"]
            /\ UNCHANGED <<process, child>>
    /\ UNCHANGED <<request_id, stdin, stdout, call>>

start(outcome) == start_spawn(outcome) /\ UNCHANGED <<regvars, avars>>

\* `if self.process.returncode is not None: return False`
Exited_never == FALSE

Exited == child = "exited"

\* NPMPluginBridge.start after the grace interval: `returncode is not None`
Woken == [ctl EXCEPT !.pc = "done", !.result = IF Exited THEN "False" ELSE "True"]

start_slept ==
    /\ ctl.op = "start" /\ ctl.pc = "sleep"
    /\ ctl' = Woken
    /\ UNCHANGED <<process, child, request_id, stdin, stdout, call, regvars, avars>>

\* NPMPluginBridge.stop, up to `await self.process.wait()`: terminate() has
\* sent SIGTERM, which the child's handler answers by running the plugin's
\* cleanup and exiting (child_exit) if and when that handler gets to run
\* A terminate() that raises is caught and `finally` clears the reference at
\* once, whatever the child does.
stop(outcome) ==
    /\ ctl.pc = "done"
    /\ IF process = "None"
       THEN /\ ctl' = [op |-> "stop", pc |-> "done", result |-> "None"]
            /\ UNCHANGED process
       ELSE IF outcome = "raise"
       THEN /\ ctl' = [op |-> "stop", pc |-> "done", result |-> "None"]
            /\ process' = "None"
       ELSE /\ ctl' = [op |-> "stop", pc |-> "wait", result |-> None]
            /\ UNCHANGED process
    /\ UNCHANGED <<child, request_id, stdin, stdout, call, regvars, avars>>

\* process.wait() returned: the child is gone; or it raised, which is
\* caught; `finally: self.process = None`
stop_waited(outcome) ==
    /\ ctl.op = "stop" /\ ctl.pc = "wait"
    /\ outcome = "ok" => child = "exited"
    /\ process' = "None"
    /\ ctl' = [ctl EXCEPT !.pc = "done", !.result = "None"]
    /\ UNCHANGED <<child, request_id, stdin, stdout, call, regvars, avars>>

\* the child process ends (on its own, or after terminate())
child_exit ==
    /\ child = "alive"
    /\ child' = "exited"
    /\ UNCHANGED <<process, request_id, stdin, stdout, call, ctl, regvars, avars>>

\* the child reads one request line and writes one line: a result, an error
\* object, or a line that is not JSON
child_respond(kind) ==
    /\ child = "alive"
    /\ stdin # <<>>
    /\ stdin' = Tail(stdin)
    /\ stdout' = Append(stdout, [kind |-> kind, id |-> Head(stdin)])
    /\ UNCHANGED <<process, child, request_id, call, ctl, regvars, avars>>

\* the child reads one request line and the handler ends in its catch block
\* (the line is not JSON, or the plugin method threw): `request?.id` names a
\* constant declared inside the try block, so building the error response
\* throws a ReferenceError and no line is written; the rejected promise is
\* unhandled, which ends the process ("exit") or is only reported
\* ("continue"), depending on the Node.js version
child_threw(outcome) ==
    /\ child = "alive"
    /\ stdin # <<>>
    /\ stdin' = Tail(stdin)
    /\ child' = IF outcome = "exit" THEN "exited" ELSE child
    /\ UNCHANGED <<process, stdout, request_id, call, ctl, regvars, avars>>

\* NPMPluginBridge.call_function up to `await self.process.stdin.drain()`:
\* what it does to the counter, the pipe and the caller's record
\* `self._request_id += 1` leaving the counter where it was
NextId_same == request_id

\* `self._request_id += 1`: the id of the request about to be written
NextId == request_id + 1

\* `if not self.process`, never true
NotRunning_never == FALSE

\* `if not self.process`
NotRunning == process = "None"

Written(c) ==
    /\ call[c].pc = "done"
    /\ IF NotRunning
       THEN /\ call' = [call EXCEPT ![c] =
                   [BeginCall(c) EXCEPT !.result = "failure", !.error = "not running"]]
            /\ UNCHANGED <<request_id, stdin>>
       ELSE /\ request_id < MaxRequests
            /\ request_id' = NextId
            /\ stdin' = IF child = "alive" THEN Append(stdin, NextId) ELSE stdin
            /\ call' = [d \in Callers |->
                   IF d = c
                   THEN [BeginCall(c) EXCEPT !.pc = "drain", !.id = NextId]
                   ELSE IF d \in InFlight THEN [call[d] EXCEPT !.serial = FALSE]
                   ELSE call[d]]

bridge_call_function(c) ==
    /\ Written(c)
    /\ UNCHANGED <<process, child, stdout, ctl, regvars, avars>>

\* drain() returned or raised, then `self.process.stdout.readline()` is
\* entered.  outcome: "ok"; "reset" (the pipe to a dead child is closed);
\* "busy" (StreamReader refuses a second waiting reader with RuntimeError)
bridge_call_drained(c, outcome) ==
    /\ call[c].pc = "drain"
    /\ outcome = "reset" => child = "exited"
    /\ outcome = "busy" => /\ process # "None"
                           /\ \E d \in Callers \ {c} : call[d].pc = "readline"
    /\ call' = [call EXCEPT ![c] =
           IF outcome = "reset" THEN Caught(call[c], "closed")
           ELSE IF process = "None" THEN Caught(call[c], "no process")
           ELSE IF outcome = "busy" THEN Caught(call[c], "busy")
           ELSE [call[c] EXCEPT !.pc = "readline"]]
    /\ UNCHANGED <<process, child, request_id, stdin, stdout, ctl, regvars, avars>>

\* the line read, without the test for an "error" member
Parsed_error_ignored(tk, line) ==
    IF line.kind = "garbage"
    THEN Caught([tk EXCEPT !.got = 0, !.line = line.kind], "garbage")
    ELSE [tk EXCEPT !.pc = "done", !.got = line.id, !.line = line.kind,
                    !.result = "success"]

\* what becomes of the line read: json.loads fails on a line that is not
\* JSON, an "error" member gives a failure, anything else success
Parsed(tk, line) ==
    IF line.kind = "garbage"
    THEN Caught([tk EXCEPT !.got = 0, !.line = line.kind], "garbage")
    ELSE IF line.kind = "error"
    THEN [tk EXCEPT !.pc = "done", !.got = line.id, !.line = line.kind,
                    !.result = "failure", !.error = "remote"]
    ELSE [tk EXCEPT !.pc = "done", !.got = line.id, !.line = line.kind,
                    !.result = "success"]

\* readline() returned: the next line of the child's output, or b'' at end
\* of file once the child is gone
bridge_call_read(c) ==
    /\ call[c].pc = "readline"
    /\ IF stdout # <<>>
       THEN /\ stdout' = Tail(stdout)
            /\ call' = [call EXCEPT ![c] = Parsed(call[c], Head(stdout))]
       ELSE /\ child = "exited"
            /\ call' = [call EXCEPT ![c] = Caught(call[c], "eof")]
            /\ UNCHANGED stdout
    /\ UNCHANGED <<process, child, request_id, stdin, ctl, regvars, avars>>

\* NPMPlugin._create_function_wrapper: the callable the plugin offers
FunctionWrapper(result) == IF result = "success" THEN "return" ELSE "raise"

\* ------------------------------------------------------------------------
\* NPMPlugin.initialize, run by load_plugin inside _safe_initialize.  The
\* bridge variables describe the bridge object the plugin refers to.
\* ------------------------------------------------------------------------
\* the record of the bridge calls made by coroutine t
CallerOf(t) == IF t = "t1" THEN "c1" ELSE "c2"

\* up to `await asyncio.create_subprocess_exec(...)` inside bridge.start():
\* _load_package_info ("ok" / "missing"), then a new NPMPluginBridge object
\* takes the place of self.bridge
\* `self.bridge = NPMPluginBridge(...)`: the bridge the plugin had is no
\* longer referred to, with its child if it has one
NewBridge(o) ==
    [o EXCEPT !.orphans = IF child = "alive" /\ @ < MaxOrphans THEN @ + 1 ELSE @]

npm_initialize(t, info) ==
    /\ task[t].op = "load_plugin" /\ task[t].pc = "initialize"
    /\ IsNPMPlugin(task[t].plug)
    /\ IF info = "missing"
       THEN Initialized(t, "false", {}) /\ UNCHANGED bvars
       ELSE /\ process' = "None"
            /\ child' = "none"
            /\ request_id' = 0
            /\ stdin' = <<>>
            /\ stdout' = <<>>
            /\ call' = [c \in Callers |-> NewCall]
            /\ ctl' = NewCtl
            /\ task' = [task EXCEPT ![t].pc = "npm_spawn"]
            /\ npm_plugin' = [npm_plugin EXCEPT
                                 ![task[t].plug] = NewBridge(_load_package_info(@, "ok"))]
            /\ UNCHANGED <<plugins, tables, initialized, enabled, npm_functions,
                           package_json, loaded_plugins, auto>>

\* create_subprocess_exec returned the process or raised; a raise makes
\* start() return False and initialize return False
npm_spawn(t, outcome) ==
    /\ task[t].op = "load_plugin" /\ task[t].pc = "npm_spawn"
    /\ start_spawn(outcome)
    /\ IF outcome = "spawned"
       THEN /\ task' = [task EXCEPT ![t].pc = "npm_sleep"]
            /\ UNCHANGED <<plugins, tables, initialized, enabled, npm_functions, avars>>
       ELSE Initialized(t, "false", {})

\* the grace interval ended: start() returns False if the child has exited
\* (initialize returns False); otherwise initialize goes on to
\* `await self.bridge.call_function('initialize', ...)`
npm_slept(t) ==
    /\ task[t].op = "load_plugin" /\ task[t].pc = "npm_sleep"
    /\ ctl.op = "start" /\ ctl.pc = "sleep"
    /\ ctl' = Woken
    /\ IF Woken.result = "False"
       THEN /\ Initialized(t, "false", {})
            /\ UNCHANGED <<process, child, request_id, stdin, stdout, call>>
       ELSE /\ Written(CallerOf(t))
            /\ task' = [task EXCEPT ![t].pc = "npm_init"]
            /\ UNCHANGED <<process, child, stdout>>
            /\ UNCHANGED <<plugins, tables, initialized, enabled, npm_functions, avars>>

\* the 'initialize' call returned: a failure makes initialize return False,
\* a success is followed by _load_mcp_functions, which calls
\* 'get_mcp_functions'
npm_init_returned(t) ==
    /\ task[t].op = "load_plugin" /\ task[t].pc = "npm_init"
    /\ call[CallerOf(t)].pc = "done"
    /\ IF call[CallerOf(t)].result # "success"
       THEN Initialized(t, "false", {}) /\ UNCHANGED bvars
       ELSE /\ Written(CallerOf(t))
            /\ task' = [task EXCEPT ![t].pc = "npm_functions"]
            /\ UNCHANGED <<process, child, stdout, ctl>>
            /\ UNCHANGED <<plugins, tables, initialized, enabled, npm_functions, avars>>

\* the 'get_mcp_functions' call returned: on success a wrapper is stored in
\* _mcp_functions for every name, on failure none; initialize returns True
npm_functions_returned(t) ==
    /\ task[t].op = "load_plugin" /\ task[t].pc = "npm_functions"
    /\ call[CallerOf(t)].pc = "done"
    /\ Initialized(t, "ok",
                   IF call[CallerOf(t)].result = "success"
                   THEN RemoteFunctions(task[t].plug) ELSE {})
    /\ UNCHANGED bvars

\* ------------------------------------------------------------------------
\* a child whose bridge was replaced ends on its own
orphan_exit(p) ==
    /\ npm_plugin[p].orphans > 0
    /\ npm_plugin' = [npm_plugin EXCEPT ![p].orphans = @ - 1]
    /\ UNCHANGED <<regvars, bvars, package_json, loaded_plugins, auto>>

\* NPMPlugin.metadata and NPMPlugin.permissions, read by whoever holds the
\* plugin object; info is what opening package.json gives at that moment
\* ------------------------------------------------------------------------
metadata(p, info) ==
    /\ npm_plugin' = [npm_plugin EXCEPT ![p] = LoadedMetadata(@, info)]
    /\ UNCHANGED <<regvars, bvars, package_json, loaded_plugins, auto>>

permissions(p, info) ==
    /\ LET o == npm_plugin[p]
           loaded == IF o._permissions = <<>>
                     THEN [o EXCEPT !._permissions =
                              <<_load_permissions(o, package_json[p], info)>>]
                     ELSE o IN
       npm_plugin' = [npm_plugin EXCEPT ![p] =
                         [loaded EXCEPT !.reads = @ \cup {loaded._permissions[1]}]]
    /\ UNCHANGED <<regvars, bvars, package_json, loaded_plugins, auto>>

\* ------------------------------------------------------------------------
\* ZeroConfigRegistry.auto_load_all and the three _auto_load_* methods
\* ------------------------------------------------------------------------
\* the plugin_info the loop is at
Current == auto.discovered[auto.i]

AtPlugin == auto.pc = "loop" /\ auto.i <= Len(auto.discovered)

\* the plugin object the attempt under way has constructed
NewPlugin(fns) ==
    [type |-> Current.type, id |-> <<auto.run, auto.i>>, _functions |-> fns]

\* `results[plugin_name] = success`, after `self.loaded_plugins[name] = plugin`
\* when initialize succeeded; ran tells whether initialize was reached
Attempted(ok, ran, fns) ==
    /\ auto' = [auto EXCEPT
                   !.pc = "loop", !.i = @ + 1,
                   !.results = WithAll(@, {Current.name}, ok),
                   !.failed = IF ran /\ ~ok THEN @ \cup {<<auto.run, auto.i>>} ELSE @]
    /\ loaded_plugins' = IF ok
                         THEN WithAll(loaded_plugins, {Current.name}, NewPlugin(fns))
                         ELSE loaded_plugins
    /\ UNCHANGED <<regvars, bvars, package_json, npm_plugin>>

\* up to `await self.auto_discovery.discover_all_plugins()`
auto_load_all ==
    /\ auto.pc = "done" /\ auto.run < MaxRuns
    /\ auto' = [auto EXCEPT !.pc = "discover", !.run = @ + 1]
    /\ UNCHANGED <<regvars, bvars, package_json, npm_plugin, loaded_plugins>>

\* discovery returned the list d; `results = {}`
discover_all_plugins(d) ==
    /\ auto.pc = "discover"
    /\ auto' = [auto EXCEPT !.pc = "loop", !.discovered = d, !.i = 1, !.results = <<>>]
    /\ UNCHANGED <<regvars, bvars, package_json, npm_plugin, loaded_plugins>>

\* NPMPlugin(...) constructed, up to `await plugin.initialize()`
_auto_load_npm_plugin ==
    /\ AtPlugin /\ Current.type = "npm"
    /\ auto' = [auto EXCEPT !.pc = "initialize"]
    /\ UNCHANGED <<regvars, bvars, package_json, npm_plugin, loaded_plugins>>

\* import and plugin_class(): a raise is caught and gives False; otherwise up
\* to `await plugin._safe_initialize()`
_auto_load_python_plugin(imported) ==
    /\ AtPlugin /\ Current.type = "python"
    /\ IF imported
       THEN /\ auto' = [auto EXCEPT !.pc = "initialize"]
            /\ UNCHANGED <<regvars, bvars, package_json, npm_plugin, loaded_plugins>>
       ELSE Attempted(FALSE, FALSE, {})

\* PythonPackagePlugin(...) and its initialize, which does not suspend
_auto_load_python_package_plugin ==
    /\ AtPlugin /\ Current.type = "python_package"
    /\ LET r == PythonPackagePlugin_initialize(Current.cfg) IN
       Attempted(r.ok, TRUE, r._functions)

\* `else: success = False` for every other type
auto_load_other ==
    /\ AtPlugin /\ Current.type \notin {"npm", "python", "python_package"}
    /\ Attempted(FALSE, FALSE, {})

\* plugin.initialize() / plugin._safe_initialize() finished: "ok" (truthy),
\* "false" (falsy) or "raise" (caught by _safe_initialize or by the method)
auto_initialized(outcome) ==
    /\ auto.pc = "initialize"
    /\ Attempted(_safe_initialize(outcome), TRUE, {})

\* `return results`
auto_load_all_returned ==
    /\ auto.pc = "loop" /\ auto.i > Len(auto.discovered)
    /\ auto' = [auto EXCEPT !.pc = "done"]
    /\ UNCHANGED <<regvars, bvars, package_json, npm_plugin, loaded_plugins>>

\* ------------------------------------------------------------------------
\* Specifications.  Each one runs the registry with the plugin objects of
\* one section of the code, with interleaved coroutines.
\* ------------------------------------------------------------------------
\* lifecycle and publication: function providers, one of them a second
\* object with a name already taken, and an NPM plugin
LifePlugins == FnPlugins \cup NpmPlugins

Init == RegInit /\ BridgeInit /\ ObjInit

Next ==
    \/ \E t \in Tasks, p \in LifePlugins : _register_plugin(t, p)
    \/ \E t \in Tasks, n \in {NameOf(p) : p \in LifePlugins} \cup {"ghost"} : load_plugin(t, n)
    \/ \E t \in Tasks, a \in BOOLEAN : load_plugin_node_checked(t, a)
    \/ \E t \in Tasks, o \in {"ok", "false", "raise"} : load_plugin_initialized(t, o)
    \/ \E t \in Tasks, n \in {NameOf(p) : p \in LifePlugins} \cup {"ghost"} : unload_plugin(t, n)
    \/ \E t \in Tasks, o \in {"ok", "raise"} : unload_plugin_cleaned(t, o)
    \/ \E t \in Tasks, f \in FuncNames : call_function(t, f)
    \/ \E t \in Tasks, o \in {"return", "raise"} : call_function_returned(t, o)

Spec == Init /\ [][Next]_vars

\* the bridge channel with two callers, its child process and start / stop
NextBridge ==
    \/ \E o \in {"spawned", "raise"} : start(o)
    \/ start_slept
    \/ \E o \in {"ok", "raise"} : stop(o)
    \/ \E o \in {"ok", "raise"} : stop_waited(o)
    \/ child_exit
    \/ \E k \in {"result", "error", "garbage"} : child_respond(k)
    \/ \E o \in {"exit", "continue"} : child_threw(o)
    \/ \E c \in Callers : bridge_call_function(c)
    \/ \E c \in Callers, o \in {"ok", "reset", "busy"} : bridge_call_drained(c, o)
    \/ \E c \in Callers : bridge_call_read(c)

SpecBridge == Init /\ [][NextBridge]_vars

\* the event loop resumes a coroutine whose await has completed: every step
\* of the bridge's coroutines is taken once it stays possible.  Nothing
\* obliges the child process to answer or to exit.
BridgeFairness ==
    /\ WF_vars(start_slept)
    /\ WF_vars(stop_waited("ok"))
    /\ \A c \in Callers :
           /\ WF_vars(\E o \in {"ok", "reset", "busy"} : bridge_call_drained(c, o))
           /\ WF_vars(bridge_call_read(c))

SpecBridgeLive == SpecBridge /\ BridgeFairness

\* ------------------------------------------------------------------------
\* Properties of the lifecycle and of publication (Spec)
\* ------------------------------------------------------------------------
\* the coroutine t began running method op in this step
StartStep(t, op) ==
    /\ task[t].pc = "done" /\ task'[t] # task[t]
    /\ task'[t].op = op /\ task'[t].quiet

\* the coroutine t finished plugin.cleanup() in this step
UnloadStep(t) ==
    /\ task[t].op = "unload_plugin" /\ task[t].pc = "cleanup"
    /\ task'[t].pc = "done"

\* the coroutine t saw plugin.initialize() fail in this step
FailedInitStep(t) ==
    /\ task[t].op = "load_plugin" /\ task[t].pc = "initialize"
    /\ task'[t].pc = "done" /\ task'[t].result = "False"

Owned(m, p) == {f \in DOMAIN m : m[f] = p}

\* C1: every name in the operation table (mcp_functions) is bound to the
\* callable of a plugin that is initialized.
C1_TableOnlyInitialized ==
    \A f \in DOMAIN mcp_functions : initialized[mcp_functions[f]]

\* a plugin was unloaded (its flag is down) while another still has entries
C1_Witness ==
    \E t \in Tasks :
        /\ task[t].op = "unload_plugin" /\ task[t].note = "cleaned up"
        /\ ~initialized[task[t].plug]
        /\ get_mcp_functions(task[t].plug) # {}
        /\ DOMAIN mcp_functions # {}

\* C3: unload_plugin of an initialized plugin that published S removes exactly the names
\* of S and leaves every entry published by another plugin untouched;
\* afterwards no name of S is in the table (call_function: not found).
C3_UnloadRemovesExactlyOwn ==
    [][\A t \in Tasks :
          (UnloadStep(t) /\ initialized[task[t].plug]) =>
              LET p == task[t].plug IN
              /\ \A f \in DOMAIN mcp_functions :
                     mcp_functions[f] # p =>
                         /\ f \in DOMAIN mcp_functions'
                         /\ mcp_functions'[f] = mcp_functions[f]
              /\ \A f \in get_mcp_functions(p) : f \notin DOMAIN mcp_functions']_vars

\* C4: a load_plugin whose initialize raised or returned a falsy value
\* publishes nothing: the tables are as before, the plugin is not marked
\* initialized by it, and while the plugin is not initialized no entry of
\* the operation table is one of its callables.
C4_FailedInitPublishesNothing ==
    [][\A t \in Tasks :
          FailedInitStep(t) =>
              LET p == task[t].plug IN
              /\ UNCHANGED tables
              /\ initialized'[p] = initialized[p]
              /\ ~initialized'[p] => Owned(mcp_functions', p) = {}]_vars

\* a function provider failed to initialize and is not in the table
C4_Witness ==
    \E t \in Tasks :
        /\ task[t].op = "load_plugin" /\ task[t].note = "failed to initialize"
        /\ get_mcp_functions(task[t].plug) # {}
        /\ ~initialized[task[t].plug]
        /\ get_mcp_functions(task[t].plug) \cap DOMAIN mcp_functions = {}
        /\ DOMAIN mcp_functions # {}

\* C6: the plugin held under a name never changes (the first registration
\* wins), and a registration under a taken name returns normally and
\* leaves the plugin map, the tables and the plugins' flags unchanged.
C6_FirstRegistrationWins ==
    [][/\ \A n \in DOMAIN plugins : n \in DOMAIN plugins' /\ plugins'[n] = plugins[n]
       /\ \A t \in Tasks :
              (StartStep(t, "register") /\ task'[t].arg \in DOMAIN plugins) =>
                  /\ UNCHANGED <<plugins, tables, initialized, enabled, npm_functions>>
                  /\ task'[t].result = "None"
                  /\ task'[t].note = "already registered"]_vars

\* the second object named "pa" was turned away, the first one is held
C6_Witness ==
    \E t \in Tasks :
        /\ task[t].op = "register" /\ task[t].note = "already registered"
        /\ task[t].arg \in DOMAIN plugins
        /\ plugins[task[t].arg] # task[t].plug

\* C14: load_plugin of a plugin that is initialized returns True at once:
\* the coroutine never reaches plugin.initialize(), and the plugin map, the
\* three tables and the plugins' flags are as before.
C14_LoadIdempotent ==
    [][\A t \in Tasks :
          (/\ StartStep(t, "load_plugin")
           /\ task'[t].arg \in DOMAIN plugins
           /\ initialized[plugins[task'[t].arg]]) =>
              /\ task'[t].pc = "done"
              /\ task'[t].result = "True"
              /\ UNCHANGED <<plugins, tables, initialized, enabled, npm_functions>>]_vars

\* a loaded function provider was loaded again and its entries are in place
C14_Witness ==
    \E t \in Tasks :
        /\ task[t].op = "load_plugin" /\ task[t].note = "already loaded"
        /\ task[t].result = "True"
        /\ initialized[task[t].plug]
        /\ Owned(mcp_functions, task[t].plug) = get_mcp_functions(task[t].plug)
        /\ get_mcp_functions(task[t].plug) # {}

\* C15: when plugin.initialize() raised or returned a falsy value,
\* load_plugin returns False (nothing is raised), that load call awaited
\* initialize exactly once, and the step does not mark the plugin
\* initialized: a plugin that was not initialized stays so.
C15_FailedInitReported ==
    [][\A t \in Tasks :
          (/\ task[t].op = "load_plugin" /\ task[t].pc = "initialize"
           /\ task'[t].inits # task[t].inits
           /\ task'[t].inits[Len(task'[t].inits)] \in {"false", "raise"}) =>
              LET p == task[t].plug IN
              /\ task'[t].pc = "done"
              /\ task'[t].result = "False"
              /\ Len(task'[t].inits) = 1
              /\ initialized'[p] = initialized[p]
              /\ ~initialized[p] => ~initialized'[p]]_vars

\* initialize raised: the load returned False and the plugin is not loaded
C15_Witness ==
    \E t \in Tasks :
        /\ task[t].op = "load_plugin" /\ task[t].pc = "done"
        /\ task[t].inits = <<"raise">>
        /\ task[t].result = "False"
        /\ ~initialized[task[t].plug]

\* coroutine t returns from load_plugin in this step
LoadReturned(t) ==
    /\ task'[t] # task[t]
    /\ task'[t].op = "load_plugin" /\ task'[t].pc = "done"

\* C36: whenever load_plugin returns True for a function provider, every
\* operation of that plugin is in the operation table at that moment,
\* whatever loads and unloads came before (an unload whose cleanup raised
\* included).
C36_LoadedMeansPublished ==
    [][\A t \in Tasks :
          (/\ LoadReturned(t)
           /\ task'[t].result = "True"
           /\ IsMCPFunctionPlugin(task'[t].plug)) =>
              get_mcp_functions(task'[t].plug) \subseteq DOMAIN mcp_functions']_vars

\* no element occurs twice in the list
NoDuplicates(list) == Cardinality({list[i] : i \in 1..Len(list)}) = Len(list)

\* C35: a plugin occurs at most once in the middleware chain and at most
\* once in the subscriber list of each event type, also when two
\* load_plugin calls for the same plugin interleave at the await of
\* initialize.
C35_NoDuplicateRegistration ==
    /\ NoDuplicates(middleware_plugins)
    /\ \A e \in DOMAIN event_handlers : NoDuplicates(event_handlers[e])

\* C16: unload_plugin of a loaded plugin returns normally whether cleanup
\* raised or not, and afterwards the plugin is no longer initialized and
\* none of the entries of the operation table is one of its callables.
C16_UnloadEndsUnloaded ==
    [][\A t \in Tasks :
          (UnloadStep(t) /\ initialized[task[t].plug]) =>
              LET p == task[t].plug IN
              /\ task'[t].result = "True"
              /\ Owned(mcp_functions', p) = {}
              /\ Owned(function_schemas', p) = {}
              /\ ~initialized'[p]]_vars

\* C17: unload_plugin of a name that is not registered, or of a plugin that
\* is not initialized, returns False at once: cleanup is not awaited and
\* the plugin map, the three tables and the plugins' flags are as before.
C17_UnloadUnloadedIsNoop ==
    [][\A t \in Tasks :
          (/\ StartStep(t, "unload_plugin")
           /\ \/ task'[t].arg \notin DOMAIN plugins
              \/ ~initialized[plugins[task'[t].arg]]) =>
              /\ task'[t].pc = "done"
              /\ task'[t].result = "False"
              /\ UNCHANGED <<plugins, tables, initialized, enabled, npm_functions>>]_vars

\* what plugin p has in the tables, and what it contributes when published
Published(p) ==
    [ops |-> Owned(mcp_functions, p),
     schemas |-> Owned(function_schemas, p),
     events |-> {e \in DOMAIN event_handlers : p \in Range(event_handlers[e])},
     middleware |-> p \in Range(middleware_plugins)]

Contributions(p) ==
    [ops |-> IF IsMCPFunctionPlugin(p) THEN get_mcp_functions(p) ELSE {},
     schemas |-> IF IsMCPFunctionPlugin(p)
                 THEN get_mcp_functions(p) \cap get_function_schemas(p) ELSE {},
     events |-> IF IsEventPlugin(p) THEN get_supported_events(p) ELSE {},
     middleware |-> IsMiddlewarePlugin(p)]

NoContribution == [ops |-> {}, schemas |-> {}, events |-> {}, middleware |-> FALSE]

\* C18: publication is atomic: in every state reached between two steps of
\* the coroutines, each plugin has either all of its contributions
\* (operations, schemas, subscriptions, middleware role) in the tables or
\* none of them.
C18_PublicationAtomic ==
    \A p \in PluginIds : Published(p) \in {Contributions(p), NoContribution}

\* C19: an entry of the operation table is never replaced: the callable
\* bound to a name changes only by the name being removed and added again,
\* so no step takes a name from one callable to another.
C19_NoSilentOverwrite ==
    [][\A f \in (DOMAIN mcp_functions) \cap (DOMAIN mcp_functions') :
          mcp_functions'[f] = mcp_functions[f]]_vars

\* C8: once load_plugin returned success for an NPM plugin, every operation
\* the plugin exposes is in the registry's operation table.
C8_BridgeOperationsPublished ==
    \A t \in Tasks :
        (/\ task[t].op = "load_plugin" /\ task[t].pc = "done"
         /\ task[t].result = "True" /\ IsNPMPlugin(task[t].plug)
         /\ initialized[task[t].plug])
        => npm_functions[task[t].plug] \subseteq DOMAIN mcp_functions

\* dispatch: one function provider behind a chain of middleware; coroutine
\* "t1" is the caller, "t2" drives the lifecycle while the call is suspended
CallPlugins == {"pb"} \cup MwPlugins

\* the registry after discover_plugins registered the plugin objects of P
Discovered(P) ==
    /\ plugins = [n \in {NameOf(p) : p \in P} |-> CHOOSE p \in P : NameOf(p) = n]
    /\ mcp_functions = EmptyMap
    /\ function_schemas = EmptyMap
    /\ event_handlers = EmptyMap
    /\ middleware_plugins = <<>>
    /\ initialized = [p \in PluginIds |-> FALSE]
    /\ enabled = [p \in PluginIds |-> TRUE]
    /\ npm_functions = [p \in NpmPlugins |-> {}]
    /\ task = [t \in Tasks |-> IdleTask]
    /\ BridgeInit
    /\ package_json = [p \in NpmPlugins |-> NoPermConfig]
    /\ npm_plugin = [p \in NpmPlugins |->
                        IF p \in P THEN LoadedMetadata(NewNPMPlugin, "ok")
                        ELSE NewNPMPlugin]
    /\ loaded_plugins = <<>>
    /\ auto = NewAuto

InitCall == Discovered(CallPlugins)

NextCall ==
    \/ \E p \in CallPlugins : load_plugin("t2", NameOf(p))
    \/ \E o \in {"ok", "false", "raise"} : load_plugin_initialized("t2", o)
    \/ \E p \in CallPlugins : unload_plugin("t2", NameOf(p))
    \/ \E o \in {"ok", "raise"} : unload_plugin_cleaned("t2", o)
    \/ \E p \in {"m1"} : enable(p)
    \/ \E p \in {"m1"} : disable(p)
    \/ \E f \in {"g"} : call_function("t1", f)
    \/ \E o \in {"ok", "raise"} : call_function_requested("t1", o)
    \/ \E o \in {"return", "raise"} : call_function_returned("t1", o)
    \/ \E o \in {"success", "failure", "raise"} : call_function_responded("t1", o)

SpecCall == InitCall /\ [][NextCall]_vars

\* event fan-out: three subscribers of one event type; coroutine "t1" emits,
\* "t2" drives the lifecycle while the emission is suspended
InitEvent == Discovered(EvPlugins)

NextEvent ==
    \/ \E p \in EvPlugins : load_plugin("t2", NameOf(p))
    \/ \E o \in {"ok", "false", "raise"} : load_plugin_initialized("t2", o)
    \/ \E p \in EvPlugins : unload_plugin("t2", NameOf(p))
    \/ \E o \in {"ok", "raise"} : unload_plugin_cleaned("t2", o)
    \/ \E p \in {"e2"} : enable(p)
    \/ \E p \in {"e2"} : disable(p)
    \/ \E e \in EventTypes : emit_event("t1", e)
    \/ \E o \in {"success", "failure", "raise"} : emit_event_handled("t1", o)

SpecEvent == InitEvent /\ [][NextEvent]_vars

\* one emission against one unload: the three subscribers were loaded in
\* the order e1, e2, e3; coroutine "t1" emits, "t2" unloads and reloads
\* "e1" only, so "e2" and "e3" stay subscribed, enabled and initialized
Stable == EvPlugins \ {"e1"}

InitEmit ==
    /\ plugins = [p \in EvPlugins |-> p]
    /\ mcp_functions = EmptyMap
    /\ function_schemas = EmptyMap
    /\ event_handlers = [e \in EventTypes |-> <<"e1", "e2", "e3">>]
    /\ middleware_plugins = <<>>
    /\ initialized = [p \in PluginIds |-> p \in EvPlugins]
    /\ enabled = [p \in PluginIds |-> TRUE]
    /\ npm_functions = [p \in NpmPlugins |-> {}]
    /\ task = [t \in Tasks |-> IdleTask]
    /\ BridgeInit
    /\ ObjInit

NextEmit ==
    \/ unload_plugin("t2", "e1")
    \/ \E o \in {"ok", "raise"} : unload_plugin_cleaned("t2", o)
    \/ load_plugin("t2", "e1")
    \/ \E o \in {"ok", "false", "raise"} : load_plugin_initialized("t2", o)
    \/ \E e \in EventTypes : emit_event("t1", e)
    \/ \E o \in {"success", "failure", "raise"} : emit_event_handled("t1", o)

SpecEmit == InitEmit /\ [][NextEmit]_vars

\* two coroutines loading and unloading the same middleware and the same
\* event subscriber, interleaved at every await
LoadPlugins == {"m1", "e1"}

InitLoad == Discovered(LoadPlugins)

NextLoad ==
    \/ \E t \in Tasks, p \in LoadPlugins : load_plugin(t, NameOf(p))
    \/ \E t \in Tasks, o \in {"ok", "false", "raise"} : load_plugin_initialized(t, o)
    \/ \E t \in Tasks, p \in LoadPlugins : unload_plugin(t, NameOf(p))
    \/ \E t \in Tasks, o \in {"ok", "raise"} : unload_plugin_cleaned(t, o)

SpecLoad == InitLoad /\ [][NextLoad]_vars

\* every method of the registry on one plugin of each role: a function
\* provider, a middleware and an event subscriber
FramePlugins == {"pb", "m1", "e1"}

NextFrame ==
    \/ \E p \in FramePlugins : _register_plugin("t2", p)
    \/ \E p \in FramePlugins : load_plugin("t2", NameOf(p))
    \/ \E o \in {"ok", "false", "raise"} : load_plugin_initialized("t2", o)
    \/ \E p \in FramePlugins : unload_plugin("t2", NameOf(p))
    \/ \E o \in {"ok", "raise"} : unload_plugin_cleaned("t2", o)
    \/ \E f \in {"g", "h"} : call_function("t1", f)
    \/ \E o \in {"ok", "raise"} : call_function_requested("t1", o)
    \/ \E o \in {"return", "raise"} : call_function_returned("t1", o)
    \/ \E o \in {"success", "failure", "raise"} : call_function_responded("t1", o)
    \/ \E e \in EventTypes : emit_event("t1", e)
    \/ \E o \in {"success", "failure", "raise"} : emit_event_handled("t1", o)
    \/ get_available_functions("t1")
    \/ \E f \in {"g", "h"} : get_function_schema("t1", f)

SpecFrame == Init /\ [][NextFrame]_vars

\* the initialized flag of some plugin went up / down in this step
BecameInitialized == \E p \in PluginIds : ~initialized[p] /\ initialized'[p]

BecameUnloaded == \E p \in PluginIds : initialized[p] /\ ~initialized'[p]

\* the entries of the three tables: (table, key, plugin, k) for the k-th
\* occurrence of a plugin in a list
Occurrences(s, p) == Cardinality({i \in 1..Len(s) : s[i] = p})

Entries ==
    {<<"op", f, mcp_functions[f], 1>> : f \in DOMAIN mcp_functions}
    \cup {<<"schema", f, function_schemas[f], 1>> : f \in DOMAIN function_schemas}
    \cup UNION {{<<"event", e, p, k>> : k \in 1..Occurrences(event_handlers[e], p)} :
                   e \in DOMAIN event_handlers, p \in PluginIds}
    \cup UNION {{<<"middleware", None, p, k>> : k \in 1..Occurrences(middleware_plugins, p)} :
                   p \in PluginIds}

EntriesAfter == Entries'

\* C20: the three tables change only when a plugin becomes initialized
\* (entries added) or becomes unloaded (entries removed): a step that adds
\* an entry takes a plugin to initialized, a step that removes one takes a
\* plugin out of it, and every other step, among them the steps of
\* register, call_function, emit_event, get_available_functions and
\* get_function_schema, failing or not, leaves the tables as they are.
C20_TablesFrame ==
    [][/\ EntriesAfter \ Entries # {} => BecameInitialized
       /\ Entries \ EntriesAfter # {} => BecameUnloaded
       /\ tables' # tables => EntriesAfter # Entries]_vars

\* loading a bridge-backed plugin, with NPMPlugin.initialize followed
\* through the bridge and its child process, next to an in-process plugin
NpmSpecPlugins == {"npm", "pb"}

InitNpm == Discovered(NpmSpecPlugins)

NextNpm ==
    \/ \E p \in NpmSpecPlugins : load_plugin("t2", NameOf(p))
    \/ \E a \in BOOLEAN : load_plugin_node_checked("t2", a)
    \/ \E o \in {"ok", "false", "raise"} :
           ~IsNPMPlugin(task["t2"].plug) /\ load_plugin_initialized("t2", o)
    \/ \E i \in {"ok", "missing"} : npm_initialize("t2", i)
    \/ \E o \in {"spawned", "raise"} : npm_spawn("t2", o)
    \/ npm_slept("t2")
    \/ npm_init_returned("t2")
    \/ npm_functions_returned("t2")
    \/ child_exit
    \/ orphan_exit("npm")
    \/ \E k \in {"result", "error", "garbage"} : child_respond(k)
    \/ \E o \in {"exit", "continue"} : child_threw(o)
    \/ \E o \in {"ok", "reset"} : bridge_call_drained("c2", o)
    \/ bridge_call_read("c2")

SpecNpm == InitNpm /\ [][NextNpm]_vars

\* an NPMPlugin object from its construction on: its properties are read
\* while it is registered and loaded; package.json declares any of the
\* permission configurations
InitPerm ==
    /\ RegInit /\ BridgeInit
    /\ package_json \in [NpmPlugins -> PermConfigs]
    /\ npm_plugin = [p \in NpmPlugins |-> NewNPMPlugin]
    /\ loaded_plugins = <<>>
    /\ auto = NewAuto

NextPerm ==
    \/ \E info \in {"ok", "missing"} : metadata("npm", info)
    \/ \E info \in {"ok", "missing"} : permissions("npm", info)
    \/ _register_plugin("t2", "npm")
    \/ load_plugin("t2", "npm")
    \/ \E a \in BOOLEAN : load_plugin_node_checked("t2", a)
    \/ \E info \in {"ok", "missing"} : npm_initialize("t2", info)
    \/ \E o \in {"spawned", "raise"} : npm_spawn("t2", o)
    \/ npm_slept("t2")
    \/ npm_init_returned("t2")
    \/ npm_functions_returned("t2")
    \/ child_exit
    \/ orphan_exit("npm")
    \/ \E k \in {"result", "error", "garbage"} : child_respond(k)
    \/ \E o \in {"exit", "continue"} : child_threw(o)
    \/ \E o \in {"ok", "reset"} : bridge_call_drained("c2", o)
    \/ bridge_call_read("c2")

SpecPerm == InitPerm /\ [][NextPerm]_vars

\* automatic loading: auto_load_all called up to MaxRuns times, each
\* discovery returning up to MaxDiscovered plugins
NextAuto ==
    \/ auto_load_all
    \/ \E d \in Discoveries : discover_all_plugins(d)
    \/ _auto_load_npm_plugin
    \/ \E imported \in BOOLEAN : _auto_load_python_plugin(imported)
    \/ _auto_load_python_package_plugin
    \/ auto_load_other
    \/ \E o \in {"ok", "false", "raise"} : auto_initialized(o)
    \/ auto_load_all_returned

SpecAuto == Init /\ [][NextAuto]_vars

\* ------------------------------------------------------------------------
\* Properties of loading a bridge-backed plugin (SpecNpm)
\* ------------------------------------------------------------------------
\* coroutine t saw create_subprocess_exec raise in this step
SpawnFailedStep(t) ==
    /\ task[t].pc = "npm_spawn" /\ task'[t].pc # "npm_spawn"
    /\ child' = "none"

\* coroutine t ended the grace interval in this step, the child having exited
ExitedEarlyStep(t) ==
    /\ task[t].pc = "npm_sleep" /\ task'[t].pc # "npm_sleep"
    /\ child = "exited"

\* C23: when the child cannot be spawned, or has exited when the grace
\* interval ends, start() returns False (nothing is raised), load_plugin
\* returns False, the plugin is not initialized and the tables hold none of
\* its operations.
C23_StartFailureFailsLoad ==
    [][\A t \in Tasks :
          (SpawnFailedStep(t) \/ ExitedEarlyStep(t)) =>
              LET p == task[t].plug IN
              /\ ctl' = [op |-> "start", pc |-> "done", result |-> "False"]
              /\ task'[t].pc = "done"
              /\ task'[t].result = "False"
              /\ ~initialized'[p]
              /\ UNCHANGED tables
              /\ (RemoteFunctions(p) \cup npm_functions'[p]) \cap DOMAIN mcp_functions' = {}]_vars

\* the child exited during the grace interval: the load failed, while the
\* in-process plugin is loaded and published
C23_Witness ==
    /\ ctl = [op |-> "start", pc |-> "done", result |-> "False"]
    /\ child = "exited"
    /\ task["t2"].op = "load_plugin" /\ task["t2"].plug = "npm"
    /\ task["t2"].result = "False" /\ task["t2"].inits = <<"false">>
    /\ ~initialized["npm"]
    /\ initialized["pb"] /\ DOMAIN mcp_functions = {"g"}

\* ------------------------------------------------------------------------
\* Properties of automatic loading (SpecAuto)
\* ------------------------------------------------------------------------
\* the loop handled a python_package plugin in this step
\* the discovered types for which auto_discovery.py has a loader
LoaderTypes == {"npm", "existing_npm", "python", "python_package"}

\* C31: auto_load_all attempts every discovered entry whose type has a
\* loader: an npm or existing_npm entry reaches its plugin's initialize, a
\* python entry reaches it unless the import failed, a python_package entry
\* is reported with the outcome of its plugin's initialize; none is
\* reported as failed without an attempt.
C31_EveryTypeAttempted ==
    [][(AtPlugin /\ Current.type \in LoaderTypes) =>
          CASE Current.type \in {"npm", "existing_npm"} -> auto'.pc = "initialize"
            [] Current.type = "python" ->
                   \/ auto'.pc = "initialize"
                   \/ auto'.i = auto.i + 1 /\ ~auto'.results[Current.name]
            [] OTHER ->
                   /\ auto'.i = auto.i + 1
                   /\ auto'.results[Current.name] =
                          PythonPackagePlugin_initialize(Current.cfg).ok]_vars

PackageStep ==
    /\ AtPlugin /\ Current.type = "python_package"
    /\ auto'.i = auto.i + 1

\* the operations of cfg whose own configuration is in order
WellFormed(cfg) ==
    {cfg.methods[i].name : i \in {j \in 1..Len(cfg.methods) :
                                     cfg.methods[j].kind \in {"ok", "unknown"}}}

\* C26: when the adapter of a Python package plugin initializes, initialize
\* succeeds whatever the configuration of single operations, and every
\* operation whose own configuration is in order is among the plugin's
\* functions.
C26_OneOperationFails ==
    [][(PackageStep /\ Current.cfg.adapter = "ok") =>
          /\ auto'.results[Current.name]
          /\ Current.name \in DOMAIN loaded_plugins'
          /\ WellFormed(Current.cfg) \subseteq loaded_plugins'[Current.name]._functions]_vars

\* C29: a name is reported true exactly when a plugin is held under it in
\* loaded_plugins, and no plugin held there is one whose initialize failed
\* or raised.
C29_ReportMatchesLoaded ==
    /\ \A n \in DOMAIN auto.results : auto.results[n] <=> n \in DOMAIN loaded_plugins
    /\ \A n \in DOMAIN loaded_plugins : loaded_plugins[n].id \notin auto.failed

\* ------------------------------------------------------------------------
\* Properties of an NPM plugin's permissions (SpecPerm)
\* ------------------------------------------------------------------------
\* C28: the `permissions` property of an NPM plugin returns one value
\* throughout, and it is the permission set its package.json declares.
C28_PermissionsAsDeclared ==
    \A p \in NpmPlugins :
        /\ Cardinality(npm_plugin[p].reads) <= 1
        /\ \A r \in npm_plugin[p].reads : r = PluginPermissions(package_json[p])

\* the Node.js check of load task t returned False
NodeUnavailable(tk) == tk.op = "load_plugin" /\ tk.results = <<"False">>

\* a load_plugin of plugin p is between its first step and its return
Initializing(p) ==
    \E t \in Tasks :
        task[t].op = "load_plugin" /\ task[t].plug = p /\ task[t].pc # "done"

\* C33: an NPM plugin that is not initialized and not in the middle of
\* initialize has no live child process: when initialize fails after the
\* bridge was started, the child has been stopped by the time it returns.
C33_NoChildWithoutPlugin ==
    \A p \in NpmPlugins :
        (~initialized[p] /\ ~Initializing(p)) => child # "alive"

\* the children started for plugin p that are alive
LiveChildren(p) == npm_plugin[p].orphans + IF child = "alive" THEN 1 ELSE 0

\* C34: at most one child process started for a plugin is alive at any
\* time: loading never spawns a second child next to a running one and
\* never drops the reference to a running one.
C34_OneChildPerPlugin == \A p \in NpmPlugins : LiveChildren(p) <= 1

\* C24: when Node.js is unavailable, load_plugin of an NPM plugin returns
\* False in the step in which the check returns: initialize was not and is
\* not awaited, no child process is spawned, nothing is published.  Only NPM
\* plugins are checked: loading an in-process plugin goes straight to
\* initialize.
C24_NoNodeNoLoad ==
    [][\A t \in Tasks :
          /\ NodeUnavailable(task'[t]) =>
                 /\ task'[t].pc = "done"
                 /\ task'[t].result = "False"
                 /\ task'[t].inits = <<>>
                 /\ ~initialized'[task'[t].plug]
                 /\ task[t].pc = "node_check" => UNCHANGED <<bvars, tables>>
          /\ task'[t].pc = "node_check" => IsNPMPlugin(task'[t].plug)
          /\ (/\ Free(t) /\ task'[t] # task[t] /\ task'[t].op = "load_plugin"
              /\ task'[t].plug # None /\ ~IsNPMPlugin(task'[t].plug)
              /\ ~initialized[task'[t].plug]) => task'[t].pc = "initialize"]_vars

\* Node.js was missing when the NPM plugin was loaded: the load failed with
\* no child, while the in-process plugin is loaded
C24_Witness ==
    /\ NodeUnavailable(task["t2"]) /\ task["t2"].plug = "npm"
    /\ task["t2"].result = "False" /\ task["t2"].inits = <<>>
    /\ process = "None" /\ child = "none"
    /\ ~initialized["npm"] /\ initialized["pb"]

\* ------------------------------------------------------------------------
\* Properties of dispatch (SpecCall)
\* ------------------------------------------------------------------------
CallTasks == {t \in Tasks : task[t].op = "call_function"}

\* the `enabled and initialized` middleware, in chain order
ActiveChain == SelectSeq(middleware_plugins, Active)

MwOf(log) == [i \in 1..Len(log) |-> log[i].mw]

IsPrefix(s, r) == Len(s) <= Len(r) /\ s = SubSeq(r, 1, Len(s))

\* C5: call_function on a name that is not in the operation table fails at
\* once with the not-found error, having invoked no process_request, no
\* process_response and no callable.
C5_FailClosedDispatch ==
    [][\A t \in Tasks :
          (StartStep(t, "call_function") /\ task'[t].arg \notin DOMAIN mcp_functions) =>
              /\ task'[t].pc = "done"
              /\ task'[t].result = "ValueError"
              /\ task'[t].log = <<>>
              /\ task'[t].rlog = <<>>
              /\ task'[t].callee = None]_vars

\* an unknown name was refused while an active middleware was in the chain
C5_Witness ==
    \E t \in CallTasks :
        /\ task[t].pc = "done" /\ task[t].result = "ValueError"
        /\ task[t].quiet
        /\ task[t].arg \notin DOMAIN mcp_functions
        /\ ActiveChain # <<>>

\* C10: in a call_function execution every middleware receives the mapping
\* the previous one returned; while the chain and its members' flags stay
\* as they were when the call began, the request path runs the active
\* middleware in chain order and the response path runs them in the
\* reverse order, and a call that ran to its end ran all of them both ways.
C10_MiddlewareOrder ==
    \A t \in CallTasks :
        LET tk == task[t] IN
        /\ \A i \in 1..Len(tk.log) : tk.log[i].got = SubSeq(MwOf(tk.log), 1, i - 1)
        /\ tk.quiet =>
              /\ IsPrefix(MwOf(tk.log), ActiveChain)
              /\ IsPrefix(MwOf(tk.rlog), Reverse(ActiveChain))
              /\ tk.pc \in {"func", "process_response"} => MwOf(tk.log) = ActiveChain
              /\ (tk.pc = "done" /\ tk.result \in {"data", "Exception"}) =>
                     /\ MwOf(tk.log) = ActiveChain
                     /\ MwOf(tk.rlog) = Reverse(ActiveChain)

\* a call went through two middleware and back
C10_Witness ==
    \E t \in CallTasks :
        /\ task[t].pc = "done" /\ task[t].result = "data" /\ task[t].quiet
        /\ MwOf(task[t].log) = <<"m1", "m2">>
        /\ MwOf(task[t].rlog) = <<"m2", "m1">>
        /\ task[t].log[2].got = <<"m1">>

\* every process_response of the execution returned a result of the kind it
\* was given (a success for a success, a failure for a failure)
KindKept(tk) == \A i \in 1..Len(tk.rlog) : tk.rlog[i].got = tk.pres

\* C27: once the callable has returned or raised, the first
\* process_response is given a success or a failure accordingly; a call that
\* ran to its end while the chain stayed as it was has passed the result
\* through every active middleware in reverse order, and if each of them kept
\* the kind of the result the caller gets an Exception when the callable
\* raised and the payload when it returned.
C27_TargetRaiseIsWrapped ==
    \A t \in CallTasks :
        LET tk == task[t] IN
        tk.results # <<>> =>
            LET kind == IF tk.results[1] = "raise" THEN "failure" ELSE "success" IN
            /\ tk.rlog # <<>> => tk.rlog[1].got = kind
            /\ tk.quiet => IsPrefix(MwOf(tk.rlog), Reverse(ActiveChain))
            /\ (tk.pc = "done" /\ tk.err.path = None) =>
                   /\ tk.quiet => MwOf(tk.rlog) = Reverse(ActiveChain)
                   /\ KindKept(tk) =>
                          tk.result = IF kind = "failure" THEN "Exception" ELSE "data"

\* the callable raised; the failure went through both middleware, last
\* first, and the caller got the Exception
C27_Witness ==
    \E t \in CallTasks :
        /\ task[t].results = <<"raise">>
        /\ task[t].pc = "done" /\ task[t].result = "Exception" /\ task[t].quiet
        /\ MwOf(task[t].rlog) = <<"m2", "m1">>
        /\ KindKept(task[t])

\* the middleware an execution invoked on one path
Invoked(log) == {log[i].mw : i \in 1..Len(log)}

\* C37: in a call_function execution that ran both paths to the end, the
\* middleware whose process_response ran are exactly the middleware whose
\* process_request ran, whatever was enabled, disabled, loaded or unloaded
\* while the call was suspended.
C37_ResponseMirrorsRequest ==
    \A t \in CallTasks :
        LET tk == task[t] IN
        (tk.pc = "done" /\ tk.results # <<>> /\ tk.err.path = None) =>
            Invoked(tk.rlog) = Invoked(tk.log)

\* C11: when a middleware raises in process_request, call_function ends
\* there with that middleware's exception: the middleware that raised is
\* the last one invoked, no callable and no process_response was invoked.
C11_RequestRaiseAborts ==
    \A t \in CallTasks :
        LET tk == task[t] IN
        tk.err.path = "request" =>
            /\ tk.pc = "done"
            /\ tk.result = "MiddlewareError"
            /\ tk.log # <<>> /\ tk.err.mw = tk.log[Len(tk.log)].mw
            /\ tk.callee = None
            /\ tk.rlog = <<>>

\* the first of two active middleware raised: the second never ran
C11_Witness ==
    \E t \in CallTasks :
        /\ task[t].err = [mw |-> "m1", path |-> "request"]
        /\ task[t].quiet
        /\ ActiveChain = <<"m1", "m2">>
        /\ task[t].arg \in DOMAIN mcp_functions

\* ------------------------------------------------------------------------
\* Properties of event fan-out (SpecEvent)
\* ------------------------------------------------------------------------
EmitTasks == {t \in Tasks : task[t].op = "emit_event"}

\* the `enabled and initialized` subscribers of event type e, in list order
ActiveHandlers(e) ==
    IF e \in DOMAIN event_handlers THEN SelectSeq(event_handlers[e], Active) ELSE <<>>

\* C7: an emission during which the subscriber list and the subscribers'
\* flags stay as they were invokes every enabled and initialized subscriber
\* of the type, also after a handler raised, and returns one entry per
\* invoked subscriber, in order: a failure for a handler that raised, the
\* handler's own result otherwise.
C7_EventIsolation ==
    \A t \in EmitTasks :
        LET tk == task[t] IN
        (tk.pc = "done" /\ tk.quiet) =>
            /\ tk.result = "list"
            /\ MwOf(tk.log) = ActiveHandlers(tk.arg)
            /\ Len(tk.results) = Len(tk.log)
            /\ \A i \in 1..Len(tk.results) :
                   /\ tk.results[i].by = tk.log[i].mw
                   /\ tk.results[i].raised => ~tk.results[i].success

\* C22: emit_event runs the handlers one at a time (a handler is invoked
\* only when every handler invoked before it has finished), in the order of
\* the subscriber list, and the list it returns holds their outcomes in
\* that order; while the list and the subscribers' flags stay as they were
\* the handlers invoked are the enabled and initialized subscribers, all of
\* them once the emission has ended, and none for a type without
\* subscribers.
C22_EventOrder ==
    \A t \in EmitTasks :
        LET tk == task[t] IN
        /\ Len(tk.log) - Len(tk.results) = IF tk.pc = "handle_event" THEN 1 ELSE 0
        /\ \A i \in 1..Len(tk.results) : tk.results[i].by = tk.log[i].mw
        /\ \A i \in 1..Len(tk.log), j \in 1..Len(tk.log) :
               i < j => tk.log[i].pos < tk.log[j].pos
        /\ tk.quiet => IsPrefix(MwOf(tk.log), ActiveHandlers(tk.arg))
        /\ (tk.quiet /\ tk.pc = "done") =>
               /\ MwOf(tk.log) = ActiveHandlers(tk.arg)
               /\ ActiveHandlers(tk.arg) = <<>> =>
                      tk.results = <<>> /\ tk.result = "list"

\* three subscribers were invoked in the order in which they were loaded
C22_Witness ==
    \E t \in EmitTasks :
        /\ task[t].pc = "done" /\ task[t].quiet
        /\ task[t].arg \in DOMAIN event_handlers
        /\ event_handlers[task[t].arg] = <<"e3", "e1", "e2">>
        /\ MwOf(task[t].log) = <<"e3", "e1", "e2">>
        /\ \A i \in 1..3 : task[t].results[i].by = task[t].log[i].mw
                             /\ task[t].results[i].success

\* how many times the emission invoked the handler of p
Invocations(tk, p) == Cardinality({i \in 1..Len(tk.log) : tk.log[i].mw = p})

\* C38: an emission that has ended has invoked exactly once the handler of
\* every plugin that was subscribed, enabled and initialized from its first
\* step to its last, also when another subscriber was unloaded while the
\* emission was suspended in a handler.
C38_StableSubscribersOnce ==
    \A t \in EmitTasks :
        (task[t].pc = "done" /\ task[t].result = "list") =>
            \A p \in Stable : Invocations(task[t], p) = 1

\* the first of three subscribers raised, the other two still ran
C7_Witness ==
    \E t \in EmitTasks :
        /\ task[t].pc = "done" /\ task[t].quiet
        /\ Len(task[t].results) = 3
        /\ task[t].results[1].raised
        /\ task[t].results[2].success
        /\ ~task[t].results[3].success /\ ~task[t].results[3].raised

\* ------------------------------------------------------------------------
\* Properties of the bridge channel (SpecBridge)
\* ------------------------------------------------------------------------
\* C2: the channel serializes its callers: at most one call is in flight,
\* no request is written before the previous call has read its response.
C2_ChannelSerializesCalls == Cardinality(InFlight) <= 1

ProtocolErrors == {"closed", "no process", "busy", "garbage", "eof"}

\* C9: a bridge call that met a dead child, a closed stream or a line that
\* is not JSON returns a failure result, no bridge call lets an exception
\* out, and the wrapper's exception for it is turned into a failure result
\* by the registry's call_function.
C9_ProtocolErrorIsFailure ==
    \A c \in Callers :
        /\ call[c].result # "raised"
        /\ (call[c].pc = "done" /\ call[c].error \in ProtocolErrors) =>
               /\ call[c].result = "failure"
               /\ Wrapped(FunctionWrapper(call[c].result)) = "failure"

\* C12: a bridge call that waits for its response line does not wait
\* forever: also when the child never writes, the call ends (with a
\* timeout failure).  Stated for a channel whose callers take turns, so
\* that no call waits for a line another call has taken.
C12_ReadIsBounded ==
    [](Cardinality(InFlight) <= 1) =>
        \A c \in Callers : (call[c].pc = "readline") ~> (call[c].pc = "done")

\* C13: stop() on a running channel always completes: once it waits for
\* the child it requested to terminate, it returns and the channel holds no
\* process, also when the child does not exit on the request.
C13_StopCompletes ==
    (ctl.op = "stop" /\ ctl.pc = "wait") ~> (ctl.pc = "done" /\ process = "None")

\* C39: once stop() has returned the channel holds no process, and a call
\* begun on a channel that holds none (stopped, or never started) ends at
\* once with the failure 'Plugin process not running': no request is
\* written and the counter stays.
C39_StoppedChannelRefuses ==
    [][/\ (ctl'.op = "stop" /\ ctl'.pc = "done") => process' = "None"
       /\ \A c \in Callers :
             (call[c].pc = "done" /\ call'[c] # call[c] /\ process = "None") =>
                 /\ call'[c].pc = "done"
                 /\ call'[c].result = "failure"
                 /\ call'[c].error = "not running"
                 /\ UNCHANGED <<request_id, stdin, stdout>>]_vars

\* terminate() raised, so stop() returned with the child still running; a
\* call made afterwards was refused, after three requests had been written
C39_Witness ==
    /\ ctl = [op |-> "stop", pc |-> "done", result |-> "None"]
    /\ process = "None" /\ child = "alive"
    /\ request_id = MaxRequests
    /\ \E c \in Callers :
           /\ call[c].pc = "done" /\ call[c].error = "not running"
           /\ call[c].after # None

\* caller c wrote its request in this step
WroteStep(c) == call[c].pc = "done" /\ call'[c].pc = "drain"

\* ids of the requests and responses the channel holds or has handed out
IdsSeen ==
    {call[d].id : d \in Callers} \cup {stdin[i] : i \in 1..Len(stdin)}
        \cup {stdout[i].id : i \in 1..Len(stdout)}

\* the child takes the next request line off its input in this step
ChildReadStep == child = "alive" /\ stdin # <<>> /\ stdin' = Tail(stdin)

\* C32: the child writes exactly one response line for every request line
\* it reads, also when the line is not JSON, the method is unknown or the
\* plugin method throws.
C32_OneLinePerRequest ==
    [][ChildReadStep => Len(stdout') = Len(stdout) + 1]_vars

\* C25: the counter bounds every id written so far, and a request written
\* in a step carries an id above the counter as it was, hence above the id of
\* every request written before; no two calls in flight share an id.
C25_IdsIncrease ==
    [][/\ \A i \in IdsSeen : i <= request_id
       /\ request_id' >= request_id
       /\ \A c \in Callers :
             WroteStep(c) =>
                 /\ call'[c].id > request_id
                 /\ call'[c].id = request_id'
                 /\ \A i \in IdsSeen : call'[c].id > i
       /\ \A c, d \in Callers :
             (c # d /\ call'[c].pc # "done" /\ call'[d].pc # "done")
                 => call'[c].id # call'[d].id]_vars

\* two requests are in flight at once and a third id has been handed out
\* before: the ids in flight are 2 and 3
C25_Witness ==
    /\ request_id = 3
    /\ call["c1"].pc # "done" /\ call["c2"].pc # "done"
    /\ {call["c1"].id, call["c2"].id} = {2, 3}

\* call c took its result from a response line
FromLine(c) == call[c].pc = "done" /\ call[c].line \in {"result", "error"}

\* C30: a call that took its result from a response line took it from the
\* line whose id is the id of the request it wrote.
C30_ResponseMatchesRequest ==
    \A c \in Callers : FromLine(c) => call[c].got = call[c].id

\* C21: a response line with an error member makes the bridge call return
\* a failure with the remote error, any other response line makes it return
\* success; and on a channel used by one call at a time, the call that
\* follows a remote error writes its own request and the response it reads
\* carries the id of that request.
C21_RemoteErrorKeepsChannel ==
    \A c \in Callers :
        call[c].pc = "done" =>
            /\ call[c].line = "error" =>
                   call[c].result = "failure" /\ call[c].error = "remote"
            /\ call[c].line = "result" => call[c].result = "success"
            /\ (call[c].serial /\ call[c].after = "remote") =>
                   /\ call[c].error # "not running" => call[c].id > 0
                   /\ call[c].line \in {"result", "error"} => call[c].got = call[c].id

\* after a remote error the next call on the channel got its own result
C21_Witness ==
    \E c \in Callers :
        /\ call[c].pc = "done" /\ call[c].serial
        /\ call[c].after = "remote"
        /\ call[c].line = "result" /\ call[c].result = "success"
        /\ call[c].id > 1 /\ call[c].got = call[c].id

\* a call wrote its request and found end of file: the child had exited
\* without answering
C9_Witness ==
    \E c \in Callers :
        /\ call[c].pc = "done" /\ call[c].id > 0
        /\ call[c].error = "eof" /\ call[c].result = "failure"
        /\ child = "exited"

====
